---------------------------- MODULE Spec2Model ----------------------------
(***************************************************************************)
(* Movie-review catalog with sentiment tagging (chung2000/mission_18).     *)
(*                                                                         *)
(* The module models the two interchangeable backends of the repository:  *)
(*   - src/backend/main.py         flat-file backend: module-level lists   *)
(*                                 `movies`, `reviews`, the counter        *)
(*                                 `movie_id_counter`, and the two JSON    *)
(*                                 files they are saved to;                *)
(*   - src/backend/main_sqlite.py  relational backend: tables `movies` and *)
(*                                 `reviews` with AUTOINCREMENT keys.      *)
(* One process runs one backend (variable `backend`).  Every FastAPI       *)
(* handler is one action; the request's inputs are drawn from small sets.  *)
(* `last` holds the last request together with its HTTP response, which is *)
(* what a client observes of a handler.                                    *)
(* Further sections model the flat-file handlers statement by statement on *)
(* the threads of the server's pool, both backends fed the same requests,  *)
(* and the start of main_sqlite.py with its migration of the JSON files.   *)
(***************************************************************************)
EXTENDS Integers, Sequences, FiniteSets, TLC

VARIABLES
    backend,          \* "json" (main.py), "sqlite" (main_sqlite.py), or "both": one
                      \* process of each, sent the same requests
    movies,           \* main.py: global list `movies`
    reviews,          \* main.py: global list `reviews`
    movie_id_counter, \* main.py: global `movie_id_counter`
    movies_file,      \* data/movies.json
    reviews_file,     \* data/reviews.json
    db_movies,        \* main_sqlite.py: table movies, in rowid order
    db_reviews,       \* main_sqlite.py: table reviews, in rowid order
    db_seq,           \* main_sqlite.py: sqlite_sequence (AUTOINCREMENT high-water marks)
    now,              \* the last reading of the wall clock (datetime.now()), in half seconds
    returned_ids,     \* history: the ids returned by create_movie, in call order
    last,             \* the last request and its response
    threads,          \* main.py: what each worker thread of the pool is executing
    taken             \* history: how many requests of each kind the worker threads took

vars == <<backend, movies, reviews, movie_id_counter, movies_file, reviews_file,
          db_movies, db_reviews, db_seq, now, returned_ids, last, threads,
          taken>>

json_vars == <<movies, reviews, movie_id_counter, movies_file, reviews_file>>
db_vars == <<db_movies, db_reviews, db_seq>>
thread_vars == <<threads, taken>>

---------------------------------------------------------------------------
(* Bounds of the model.                                                    *)

\* create_movie is called at most MaxMovies times.
MaxMovies == 2
\* the review list holds at most MaxReviews reviews; the reviews table is
\* inserted into at most MaxReviews times.
MaxReviews == 2
\* the wall clock is read MaxClock half seconds after the start at the latest.
MaxClock == 2
\* MaxWorkers threads of the pool serve requests at the same time.
MaxWorkers == 2
\* the worker threads take at most MaxRequests requests.
MaxRequests == 4

(* Program constants.                                                      *)

\* get_recent_reviews(limit: int = 10)
DefaultLimit == 10

---------------------------------------------------------------------------
(* Request inputs.                                                         *)

Titles == {"Inception", "Tenet"}

\* MovieCreate: the five string fields of a movie registration.
MovieCreate ==
    { [title |-> t, director |-> "Nolan", genre |-> "Sci-Fi",
       release_date |-> "2010-07-16", poster_url |-> "http://x/1.jpg"] : t \in Titles }

Contents == {"Amazing film"}

\* movie ids a request may name: every id that can exist, and one that never does.
MovieIdArgs == 1..(MaxMovies + 1)

\* ReviewCreate: movie_id and content.
ReviewCreate == { [movie_id |-> m, content |-> c] : m \in MovieIdArgs, c \in Contents }

\* positions a DELETE /reviews/{index} request may name (any integer parses).
IndexArgs == (0 - (MaxReviews + 1))..MaxReviews

\* limits a GET /reviews/recent request may name (any integer parses).
LimitArgs == (-2..(MaxReviews + 1)) \cup {DefaultLimit}

\* What the sentiment pipeline may answer: a raw label and a score in [0,1],
\* the score written in millionths.
ClassifierOutputs ==
    { [label |-> "LABEL_1", score |-> 987654],
      [label |-> "LABEL_0", score |-> 612349],
      [label |-> "POSITIVE", score |-> 612349] }

---------------------------------------------------------------------------
(* Python and SQL primitives the handlers use.                             *)

\* s[::-1]
PyReverse(s) == [i \in 1..Len(s) |-> s[Len(s) + 1 - i]]

\* s[:n], for any integer n: a negative n counts from the end.
PySliceTo(s, n) ==
    LET stop == IF n >= 0 THEN (IF n < Len(s) THEN n ELSE Len(s))
                ELSE (IF Len(s) + n > 0 THEN Len(s) + n ELSE 0)
    IN  SubSeq(s, 1, stop)

\* whether list.pop(i) finds an element: a negative i counts from the end.
PyPopInRange(s, i) == (0 - Len(s)) <= i /\ i < Len(s)

\* (mutant) the position is taken in the newest-first view of the list
PyPop_newest_first(s, i) ==
    LET k == Len(s) - (IF i < 0 THEN Len(s) + i ELSE i)
    IN  SubSeq(s, 1, k - 1) \o SubSeq(s, k + 1, Len(s))

\* the list after list.pop(i), for an i that is in range (0-based).
PyPop(s, i) ==
    LET k == (IF i < 0 THEN Len(s) + i ELSE i) + 1
    IN  SubSeq(s, 1, k - 1) \o SubSeq(s, k + 1, Len(s))

\* [m["id"] for m in movies]: the ids of a list of records
IdsOf(ms) == { ms[i].id : i \in 1..Len(ms) }

\* max([...], default=0)
MaxOf(S) == IF S = {} THEN 0 ELSE CHOOSE x \in S : \A y \in S : y <= x

\* round(score, 4): score in millionths, the result in ten-thousandths.
\* (No input of ClassifierOutputs lies exactly between two results.)
Round4(score) == (score + 50) \div 100

\* datetime.now().strftime("%Y-%m-%d %H:%M:%S"): the reading, in half seconds,
\* cut to the whole second.  The text orders as the seconds do, so the number
\* of the second stands for it.
Strftime(t) == t \div 2

---------------------------------------------------------------------------
(* Persistence of the flat-file backend.                                   *)

NoFile == [exists |-> FALSE, data |-> <<>>]

\* load_json: the list in the file, [] when the file does not exist.
load_json(file) == IF file.exists THEN file.data ELSE <<>>

\* (mutant) the file is opened for writing, and so emptied, but nothing is dumped
save_json_truncated(data) == [exists |-> TRUE, data |-> <<>>]

\* save_json: the file holds the whole list.
save_json(data) == [exists |-> TRUE, data |-> data]

---------------------------------------------------------------------------
(* Responses.                                                              *)

\* calls: how many times the handler called the sentiment pipeline.
Response(op, arg, status, body, calls) ==
    [op |-> op, arg |-> arg, status |-> status, body |-> body, calls |-> calls]

NoArg == [none |-> TRUE]

\* The sync `def` handlers run on the threads of the server's pool.
Workers == 1..MaxWorkers

\* the handlers of the API that change a store
Handlers ==
    {"create_movie", "delete_movie", "create_review", "delete_all_reviews",
     "delete_specific_review"}

\* a worker thread that serves no request
Idle == [pc |-> "idle", op |-> "none", arg |-> NoArg, local |-> NoArg]

Init ==
    /\ backend \in {"json", "sqlite", "both"}
    /\ movies = <<>>
    /\ reviews = <<>>
    /\ movie_id_counter = 1
    /\ movies_file = NoFile
    /\ reviews_file = NoFile
    /\ db_movies = <<>>
    /\ db_reviews = <<>>
    /\ db_seq = [movies |-> 0, reviews |-> 0]
    /\ now = 0
    /\ returned_ids = <<>>
    /\ last = Response("startup", NoArg, 0, NoArg, 0)
    /\ threads = [w \in Workers |-> Idle]
    /\ taken = [op \in Handlers |-> 0]

---------------------------------------------------------------------------
(* Flat-file backend, src/backend/main.py.                                 *)

\* (mutant) only an empty movie list answers 404
movie_exists_nonempty(ms, movie_id) == Len(ms) > 0

\* any(m["id"] == movie_id for m in movies)
movie_exists(ms, movie_id) == \E i \in 1..Len(ms) : ms[i].id = movie_id

\* next((m for m in movies if m["id"] == id), None): the first movie with the
\* id as <<m>>, and None as <<>>.
FindMovie(ms, movie_id) ==
    LET hits == SelectSeq(ms, LAMBDA m : m.id = movie_id)
    IN  IF hits = <<>> THEN <<>> ELSE <<Head(hits)>>

\* (mutant) the movie list is left as it is
WithoutMovie_kept(ms, movie_id) == ms

\* [m for m in movies if m["id"] != movie_id]
WithoutMovie(ms, movie_id) == SelectSeq(ms, LAMBDA m : m.id # movie_id)

\* (mutant) no cascade: the reviews of the movie stay
WithoutReviewsOf_no_cascade(rs, movie_id) == rs

\* [r for r in reviews if r["movie_id"] != movie_id]
WithoutReviewsOf(rs, movie_id) == SelectSeq(rs, LAMBDA r : r.movie_id # movie_id)

\* new_movie = movie.dict(); new_movie["id"] = ...
NewMovie(movie, id) ==
    [id |-> id, title |-> movie.title, director |-> movie.director,
     genre |-> movie.genre, release_date |-> movie.release_date,
     poster_url |-> movie.poster_url]

\* (mutant) a raw label that already reads POSITIVE is taken as positive too
SentimentLabel_positive_passes(raw) ==
    IF raw \in {"LABEL_1", "POSITIVE"} THEN "POSITIVE" ELSE "NEGATIVE"

\* "POSITIVE" if prediction['label'] == 'LABEL_1' else "NEGATIVE"
SentimentLabel(raw) == IF raw = "LABEL_1" THEN "POSITIVE" ELSE "NEGATIVE"

\* (mutant) movie_title is taken from the request instead of the movie
NewReview_title_from_request(review, movie, prediction, t) ==
    [movie_id |-> review.movie_id,
     movie_title |-> review.content,
     content |-> review.content,
     sentiment |-> SentimentLabel(prediction.label),
     sentiment_score |-> Round4(prediction.score),
     created_at |-> Strftime(t)]

\* the dict new_review built by create_review
NewReview(review, movie, prediction, t) ==
    [movie_id |-> review.movie_id,
     movie_title |-> movie.title,
     content |-> review.content,
     sentiment |-> SentimentLabel(prediction.label),
     sentiment_score |-> Round4(prediction.score),
     created_at |-> Strftime(t)]

\* GET /movies/
get_movies ==
    /\ backend = "json"
    /\ last' = Response("get_movies", NoArg, 200, [items |-> movies], 0)
    /\ UNCHANGED <<backend, thread_vars, json_vars, db_vars, now, returned_ids>>

\* (mutant) the id is recomputed from the movies in the list
NextMovieId_from_list == MaxOf(IdsOf(movies)) + 1

\* new_movie["id"] = movie_id_counter
NextMovieId == movie_id_counter

\* (mutant) the counter is not advanced
NextCounter_stuck(counter) == counter

\* movie_id_counter += 1
NextCounter(counter) == counter + 1

\* POST /movies/
create_movie(movie) ==
    /\ backend = "json"
    /\ Len(returned_ids) < MaxMovies
    /\ LET new_movie == NewMovie(movie, NextMovieId)
       IN  /\ movies' = Append(movies, new_movie)
           /\ movies_file' = save_json(movies')
           /\ movie_id_counter' = NextCounter(movie_id_counter)
           /\ returned_ids' = Append(returned_ids, new_movie.id)
           /\ last' = Response("create_movie", movie, 200, new_movie, 0)
    /\ UNCHANGED <<backend, thread_vars, reviews, reviews_file, db_vars, now>>

\* DELETE /movies/{movie_id}
delete_movie(movie_id) ==
    /\ backend = "json"
    /\ \/ /\ ~movie_exists(movies, movie_id)
          /\ last' = Response("delete_movie", [movie_id |-> movie_id], 404,
                              [detail |-> "Movie not found"], 0)
          /\ UNCHANGED json_vars
       \/ /\ movie_exists(movies, movie_id)
          /\ movies' = WithoutMovie(movies, movie_id)
          /\ movies_file' = save_json(movies')
          /\ reviews' = WithoutReviewsOf(reviews, movie_id)
          /\ reviews_file' = save_json(reviews')
          /\ last' = Response("delete_movie", [movie_id |-> movie_id], 200,
                              [message |-> "deleted"], 0)
          /\ UNCHANGED movie_id_counter
    /\ UNCHANGED <<backend, thread_vars, db_vars, now, returned_ids>>

\* (mutant) the classifier is called before the movie is looked up
MovieNotFound_after_classifier(review) ==
    Response("create_review", review, 404, [detail |-> "Movie not found"], 1)

\* raise HTTPException(status_code=404, detail="Movie not found"), raised
\* before the classifier is reached
MovieNotFound(review) ==
    Response("create_review", review, 404, [detail |-> "Movie not found"], 0)

\* the exception of classifier(review.content) leaves the handler: 500
ClassifierError(review) ==
    Response("create_review", review, 500, [detail |-> "Internal Server Error"], 1)

\* create_review, 1.: `if not movie` raises the 404
create_review_not_found(review) ==
    /\ FindMovie(movies, review.movie_id) = <<>>
    /\ last' = MovieNotFound(review)
    /\ UNCHANGED <<json_vars, now>>

\* (mutant) a record without sentiment is appended before the classifier is
\* called, and stays when the call raises
create_review_partial_append(review) ==
    /\ FindMovie(movies, review.movie_id) # <<>>
    /\ Len(reviews) < MaxReviews
    /\ reviews' = Append(reviews, [movie_id |-> review.movie_id,
                                   movie_title |-> FindMovie(movies, review.movie_id)[1].title,
                                   content |-> review.content])
    /\ reviews_file' = save_json(reviews')
    /\ last' = ClassifierError(review)
    /\ UNCHANGED <<movies, movies_file, movie_id_counter, now>>

\* create_review, 2.: classifier(review.content) raises; new_review is not
\* built yet and nothing was appended
create_review_classifier_raises(review) ==
    /\ FindMovie(movies, review.movie_id) # <<>>
    /\ last' = ClassifierError(review)
    /\ UNCHANGED <<json_vars, now>>

\* create_review, 2.-3.: the classifier answers, the record is built, appended
\* and saved
create_review_stored(review) ==
    /\ FindMovie(movies, review.movie_id) # <<>>
    /\ Len(reviews) < MaxReviews
    /\ \E prediction \in ClassifierOutputs, t \in now..MaxClock :
          LET new_review == NewReview(review, FindMovie(movies, review.movie_id)[1],
                                      prediction, t)
          IN  /\ reviews' = Append(reviews, new_review)
              /\ reviews_file' = save_json(reviews')
              /\ now' = t
              /\ last' = Response("create_review", review, 200, new_review, 1)
    /\ UNCHANGED <<movies, movies_file, movie_id_counter>>

\* POST /reviews/
create_review(review) ==
    /\ backend = "json"
    /\ \/ create_review_not_found(review)
       \/ create_review_classifier_raises(review)
       \/ create_review_stored(review)
    /\ UNCHANGED <<backend, thread_vars, db_vars, returned_ids>>

\* Optional[int] query parameter movie_id of GET /reviews/
NoFilter == [given |-> FALSE, value |-> 0]
FilterArgs == {NoFilter} \cup { [given |-> TRUE, value |-> m] : m \in 0..(MaxMovies + 1) }

\* the list get_all_reviews returns
AllReviews(rs, filter) ==
    LET sorted_reviews == PyReverse(rs)
    IN  IF filter.given
        THEN SelectSeq(sorted_reviews, LAMBDA r : r.movie_id = filter.value)
        ELSE sorted_reviews

\* GET /reviews/
get_all_reviews(filter) ==
    /\ backend = "json"
    /\ last' = Response("get_all_reviews", filter, 200,
                        [items |-> AllReviews(reviews, filter)], 0)
    /\ UNCHANGED <<backend, thread_vars, json_vars, db_vars, now, returned_ids>>

\* the list get_recent_reviews returns: reviews[::-1][:limit]
RecentReviews(rs, limit) == PySliceTo(PyReverse(rs), limit)

\* GET /reviews/recent
get_recent_reviews(limit) ==
    /\ backend = "json"
    /\ last' = Response("get_recent_reviews", [limit |-> limit], 200,
                        [items |-> RecentReviews(reviews, limit)], 0)
    /\ UNCHANGED <<backend, thread_vars, json_vars, db_vars, now, returned_ids>>

\* DELETE /reviews/
delete_all_reviews ==
    /\ backend = "json"
    /\ reviews' = <<>>
    /\ reviews_file' = save_json(reviews')
    /\ last' = Response("delete_all_reviews", NoArg, 200, [message |-> "deleted"], 0)
    /\ UNCHANGED <<backend, thread_vars, movies, movies_file, movie_id_counter, db_vars, now,
                   returned_ids>>

\* DELETE /reviews/{index}
delete_specific_review(index) ==
    /\ backend = "json"
    /\ \/ \* reviews.pop(index) succeeds
          /\ PyPopInRange(reviews, index)
          /\ reviews' = PyPop(reviews, index)
          /\ reviews_file' = save_json(reviews')
          /\ last' = Response("delete_specific_review", [index |-> index], 200,
                              [message |-> "Review deleted"], 0)
       \/ \* reviews.pop(index) raises IndexError
          /\ ~PyPopInRange(reviews, index)
          /\ last' = Response("delete_specific_review", [index |-> index], 404,
                              [detail |-> "Review index out of range"], 0)
          /\ UNCHANGED <<reviews, reviews_file>>
    /\ UNCHANGED <<backend, thread_vars, movies, movies_file, movie_id_counter, db_vars, now,
                   returned_ids>>

\* Process start of main.py: the lists are loaded and the counter recomputed.
Startup ==
    /\ backend = "json"
    /\ movies' = load_json(movies_file)
    /\ reviews' = load_json(reviews_file)
    /\ movie_id_counter' = MaxOf(IdsOf(movies')) + 1
    /\ last' = Response("startup", NoArg, 0, NoArg, 0)
    /\ UNCHANGED <<backend, thread_vars, movies_file, reviews_file, db_vars, now,
                   returned_ids>>

\* the requests that change a store
JsonWrites ==
    \/ \E movie \in MovieCreate : create_movie(movie)
    \/ \E movie_id \in MovieIdArgs : delete_movie(movie_id)
    \/ \E review \in ReviewCreate : create_review(review)
    \/ delete_all_reviews
    \/ \E index \in IndexArgs : delete_specific_review(index)

\* the requests that only read
JsonReads ==
    \/ get_movies
    \/ \E filter \in FilterArgs : get_all_reviews(filter)
    \/ \E limit \in LimitArgs : get_recent_reviews(limit)

---------------------------------------------------------------------------
(* Relational backend, src/backend/main_sqlite.py.  Every handler opens    *)
(* its own connection and commits once, so a handler is one transaction.   *)

\* SELECT title FROM movies WHERE id = ?  ... fetchone(): the row as <<m>>,
\* and None as <<>>.
db_find_movie(rows, movie_id) ==
    LET hits == SelectSeq(rows, LAMBDA m : m.id = movie_id)
    IN  IF hits = <<>> THEN <<>> ELSE <<Head(hits)>>

\* DELETE FROM movies WHERE id = ?
db_delete_movie(rows, movie_id) == SelectSeq(rows, LAMBDA m : m.id # movie_id)

\* DELETE FROM reviews WHERE movie_id = ?
db_delete_reviews_of(rows, movie_id) == SelectSeq(rows, LAMBDA r : r.movie_id # movie_id)

\* INTEGER PRIMARY KEY AUTOINCREMENT: one more than the largest key the table
\* ever held.
Autoincrement(rows, seq) ==
    LET top == MaxOf(IdsOf(rows))
    IN  (IF seq > top THEN seq ELSE top) + 1

\* ORDER BY created_at DESC: SQLite's sorter keeps rows with equal keys in
\* the order of the table scan, which is rowid order.
RECURSIVE OrderByCreatedAtDesc(_)
OrderByCreatedAtDesc(rows) ==
    IF rows = <<>> THEN <<>>
    ELSE LET top == MaxOf({ rows[i].created_at : i \in 1..Len(rows) })
         IN  SelectSeq(rows, LAMBDA r : r.created_at = top)
             \o OrderByCreatedAtDesc(SelectSeq(rows, LAMBDA r : r.created_at # top))

\* LIMIT ?: a negative limit is no limit.
SqlLimit(rows, limit) ==
    IF limit < 0 \/ limit >= Len(rows) THEN rows ELSE SubSeq(rows, 1, limit)

\* the row INSERT INTO reviews (...) VALUES (...) adds
NewReviewRow(id, review, movie, prediction, t) ==
    [id |-> id,
     movie_id |-> review.movie_id,
     movie_title |-> movie.title,
     content |-> review.content,
     sentiment |-> SentimentLabel(prediction.label),
     sentiment_score |-> Round4(prediction.score),
     created_at |-> Strftime(t)]

\* GET /movies/
sqlite_get_movies ==
    /\ backend = "sqlite"
    /\ last' = Response("get_movies", NoArg, 200, [items |-> db_movies], 0)
    /\ UNCHANGED <<backend, thread_vars, json_vars, db_vars, now, returned_ids>>

\* POST /movies/
sqlite_create_movie(movie) ==
    /\ backend = "sqlite"
    /\ Len(returned_ids) < MaxMovies
    /\ LET new_id == Autoincrement(db_movies, db_seq.movies)
       IN  /\ db_movies' = Append(db_movies, NewMovie(movie, new_id))
           /\ db_seq' = [db_seq EXCEPT !.movies = new_id]
           /\ returned_ids' = Append(returned_ids, new_id)
           /\ last' = Response("create_movie", movie, 200, NewMovie(movie, new_id), 0)
    /\ UNCHANGED <<backend, thread_vars, json_vars, db_reviews, now>>

\* DELETE /movies/{movie_id}: both DELETE statements run, whatever they match.
sqlite_delete_movie(movie_id) ==
    /\ backend = "sqlite"
    /\ db_movies' = db_delete_movie(db_movies, movie_id)
    /\ db_reviews' = db_delete_reviews_of(db_reviews, movie_id)
    /\ last' = Response("delete_movie", [movie_id |-> movie_id], 200,
                        [message |-> "deleted"], 0)
    /\ UNCHANGED <<backend, thread_vars, json_vars, db_seq, now, returned_ids>>

\* POST /reviews/
sqlite_create_review(review) ==
    /\ backend = "sqlite"
    /\ \/ \* the movie is not there: 404 before the classifier is reached
          /\ db_find_movie(db_movies, review.movie_id) = <<>>
          /\ last' = MovieNotFound(review)
          /\ UNCHANGED <<db_vars, now>>
       \/ \* the classifier raises: nothing was executed on the connection yet
          /\ db_find_movie(db_movies, review.movie_id) # <<>>
          /\ last' = ClassifierError(review)
          /\ UNCHANGED <<db_vars, now>>
       \/ \* the classifier answers: the row is inserted and committed
          /\ db_find_movie(db_movies, review.movie_id) # <<>>
          /\ db_seq.reviews < MaxReviews
          /\ \E prediction \in ClassifierOutputs, t \in now..MaxClock :
                LET new_id == Autoincrement(db_reviews, db_seq.reviews)
                    row == NewReviewRow(new_id, review,
                                        db_find_movie(db_movies, review.movie_id)[1],
                                        prediction, t)
                IN  /\ db_reviews' = Append(db_reviews, row)
                    /\ db_seq' = [db_seq EXCEPT !.reviews = new_id]
                    /\ now' = t
                    /\ last' = Response("create_review", review, 200,
                                        [status |-> "success"], 1)
          /\ UNCHANGED db_movies
    /\ UNCHANGED <<backend, thread_vars, json_vars, returned_ids>>

\* the rows get_reviews returns: `if movie_id:` filters only for a non-zero id
db_reviews_of(rows, filter) ==
    IF filter.given /\ filter.value # 0
    THEN OrderByCreatedAtDesc(SelectSeq(rows, LAMBDA r : r.movie_id = filter.value))
    ELSE OrderByCreatedAtDesc(rows)

\* GET /reviews/
sqlite_get_reviews(filter) ==
    /\ backend = "sqlite"
    /\ last' = Response("get_all_reviews", filter, 200,
                        [items |-> db_reviews_of(db_reviews, filter)], 0)
    /\ UNCHANGED <<backend, thread_vars, json_vars, db_vars, now, returned_ids>>

\* the rows get_recent_reviews returns
db_recent_reviews(rows, limit) == SqlLimit(OrderByCreatedAtDesc(rows), limit)

\* GET /reviews/recent
sqlite_get_recent_reviews(limit) ==
    /\ backend = "sqlite"
    /\ last' = Response("get_recent_reviews", [limit |-> limit], 200,
                        [items |-> db_recent_reviews(db_reviews, limit)], 0)
    /\ UNCHANGED <<backend, thread_vars, json_vars, db_vars, now, returned_ids>>

\* the rows of a table in rowid order, after rows with explicit ids went in
RECURSIVE InRowidOrder(_)
InRowidOrder(rows) ==
    IF rows = <<>> THEN <<>>
    ELSE LET low == CHOOSE x \in IdsOf(rows) : \A y \in IdsOf(rows) : x <= y
         IN  SelectSeq(rows, LAMBDA r : r.id = low)
             \o InRowidOrder(SelectSeq(rows, LAMBDA r : r.id # low))

\* init_db, lines 100-104: every record of reviews.json is inserted without an
\* id, so each takes the next AUTOINCREMENT id after seq
RECURSIVE MigratedReviews(_, _)
MigratedReviews(data, seq) ==
    IF data = <<>> THEN <<>>
    ELSE <<[id |-> seq + 1,
            movie_id |-> Head(data).movie_id,
            movie_title |-> Head(data).movie_title,
            content |-> Head(data).content,
            sentiment |-> Head(data).sentiment,
            sentiment_score |-> Head(data).sentiment_score,
            created_at |-> Head(data).created_at]>>
         \o MigratedReviews(Tail(data), seq + 1)

\* Process start of main_sqlite.py (line 111), on the data directory a
\* main.py process may have written before: the tables are created if they
\* are not there, and when SELECT COUNT(*) FROM movies is 0 the records of the
\* JSON files that exist are inserted, the movies with their ids.
init_db ==
    /\ backend \in {"json", "sqlite"}
    /\ backend' = "sqlite"
    /\ IF Len(db_movies) = 0
       THEN LET movie_data == IF movies_file.exists THEN movies_file.data ELSE <<>>
                review_data == IF reviews_file.exists THEN reviews_file.data ELSE <<>>
                next_review == Autoincrement(db_reviews, db_seq.reviews) - 1
            IN  /\ next_review + Len(review_data) <= MaxReviews
                /\ db_movies' = InRowidOrder(movie_data)
                /\ db_reviews' = db_reviews \o MigratedReviews(review_data, next_review)
                /\ db_seq' = [movies |-> Autoincrement(movie_data, db_seq.movies) - 1,
                              reviews |-> next_review + Len(review_data)]
       ELSE UNCHANGED db_vars
    /\ last' = Response("startup", NoArg, 0, NoArg, 0)
    /\ UNCHANGED <<thread_vars, json_vars, now, returned_ids>>

\* the requests that change a table
SqliteWrites ==
    \/ \E movie \in MovieCreate : sqlite_create_movie(movie)
    \/ \E movie_id \in MovieIdArgs : sqlite_delete_movie(movie_id)
    \/ \E review \in ReviewCreate : sqlite_create_review(review)

\* the requests that only read
SqliteReads ==
    \/ sqlite_get_movies
    \/ \E filter \in FilterArgs : sqlite_get_reviews(filter)
    \/ \E limit \in LimitArgs : sqlite_get_recent_reviews(limit)

---------------------------------------------------------------------------
(* Flat-file backend, handlers running on several threads.  The handlers   *)
(* of main.py are plain `def` functions, which the server runs on the      *)
(* threads of its pool; they share the module globals and take no lock.    *)
(* A step is one access to a global: a read, an in-place list operation,   *)
(* a rebinding, or a save_json call.  The evaluation of the right-hand     *)
(* side of an assignment and the rebinding of the global are two steps,    *)
(* since the interpreter may switch threads between them.                  *)

Running(op, arg, pc, local) == [pc |-> pc, op |-> op, arg |-> arg, local |-> local]

\* how many of the requests taken so far are calls of `op`
CountOf(op) == taken[op]

\* how many requests were taken so far
RECURSIVE SumOver(_, _)
SumOver(f, S) ==
    IF S = {} THEN 0
    ELSE LET x == CHOOSE y \in S : TRUE IN f[x] + SumOver(f, S \ {x})

\* worker w is at position pc of handler op
At(w, op, pc) == threads[w].op = op /\ threads[w].pc = pc

\* an idle worker w of the flat-file process takes a request for handler op
Take(w, op) ==
    /\ backend = "json"
    /\ threads[w] = Idle
    /\ SumOver(taken, Handlers) < MaxRequests
    /\ taken' = [taken EXCEPT ![op] = @ + 1]

\* worker w goes on to position pc with the local variables `local`
Goto(w, pc, local) ==
    /\ threads' = [threads EXCEPT ![w] = Running(threads[w].op, threads[w].arg, pc, local)]
    /\ UNCHANGED <<taken, last>>

\* the handler of worker w returns (or raises): the response goes out
Return(w, response) ==
    /\ threads' = [threads EXCEPT ![w] = Idle]
    /\ last' = response

\* create_movie, lines 90-91: new_movie is built with the counter's value
create_movie_new(w, movie) ==
    /\ Take(w, "create_movie")
    /\ CountOf("create_movie") < MaxMovies
    /\ threads' = [threads EXCEPT ![w] =
                      Running("create_movie", movie, "append",
                              [new_movie |-> NewMovie(movie, NextMovieId)])]
    /\ UNCHANGED <<backend, json_vars, db_vars, now, returned_ids, last>>

\* create_movie, line 92: movies.append(new_movie)
create_movie_append(w) ==
    /\ At(w, "create_movie", "append")
    /\ movies' = Append(movies, threads[w].local.new_movie)
    /\ Goto(w, "save", threads[w].local)
    /\ UNCHANGED <<backend, reviews, movie_id_counter, movies_file, reviews_file,
                   db_vars, now, returned_ids>>

\* create_movie, line 95: save_json(MOVIES_FILE, movies)
create_movie_save(w) ==
    /\ At(w, "create_movie", "save")
    /\ movies_file' = save_json(movies)
    /\ Goto(w, "load_counter", threads[w].local)
    /\ UNCHANGED <<backend, movies, reviews, movie_id_counter, reviews_file,
                   db_vars, now, returned_ids>>

\* create_movie, line 97: movie_id_counter += 1 reads the global ...
create_movie_load_counter(w) ==
    /\ At(w, "create_movie", "load_counter")
    /\ Goto(w, "store_counter", [new_movie |-> threads[w].local.new_movie,
                                 counter |-> movie_id_counter])
    /\ UNCHANGED <<backend, json_vars, db_vars, now, returned_ids>>

\* ... and rebinds it; line 98 returns new_movie
create_movie_store_counter(w) ==
    /\ At(w, "create_movie", "store_counter")
    /\ movie_id_counter' = NextCounter(threads[w].local.counter)
    /\ returned_ids' = Append(returned_ids, threads[w].local.new_movie.id)
    /\ Return(w, Response("create_movie", threads[w].arg, 200,
                          threads[w].local.new_movie, 0))
    /\ UNCHANGED <<backend, movies, reviews, movies_file, reviews_file, db_vars,
                   now, taken>>

\* delete_movie, lines 108-110: the existence check and its 404
delete_movie_check(w, movie_id) ==
    /\ Take(w, "delete_movie")
    /\ \/ /\ ~movie_exists(movies, movie_id)
          /\ threads' = threads
          /\ last' = Response("delete_movie", [movie_id |-> movie_id], 404,
                              [detail |-> "Movie not found"], 0)
       \/ /\ movie_exists(movies, movie_id)
          /\ threads' = [threads EXCEPT ![w] =
                            Running("delete_movie", [movie_id |-> movie_id],
                                    "filter_movies", NoArg)]
          /\ last' = last
    /\ UNCHANGED <<backend, json_vars, db_vars, now, returned_ids>>

\* delete_movie, line 113: the list comprehension over movies is evaluated ...
delete_movie_filter_movies(w) ==
    /\ At(w, "delete_movie", "filter_movies")
    /\ Goto(w, "assign_movies",
            [kept |-> WithoutMovie(movies, threads[w].arg.movie_id)])
    /\ UNCHANGED <<backend, json_vars, db_vars, now, returned_ids>>

\* ... and the global movies is rebound to the new list
delete_movie_assign_movies(w) ==
    /\ At(w, "delete_movie", "assign_movies")
    /\ movies' = threads[w].local.kept
    /\ Goto(w, "save_movies", NoArg)
    /\ UNCHANGED <<backend, reviews, movie_id_counter, movies_file, reviews_file,
                   db_vars, now, returned_ids>>

\* delete_movie, line 114: save_json(MOVIES_FILE, movies)
delete_movie_save_movies(w) ==
    /\ At(w, "delete_movie", "save_movies")
    /\ movies_file' = save_json(movies)
    /\ Goto(w, "filter_reviews", NoArg)
    /\ UNCHANGED <<backend, movies, reviews, movie_id_counter, reviews_file,
                   db_vars, now, returned_ids>>

\* delete_movie, line 117: the list comprehension over reviews is evaluated ...
delete_movie_filter_reviews(w) ==
    /\ At(w, "delete_movie", "filter_reviews")
    /\ Goto(w, "assign_reviews",
            [kept |-> WithoutReviewsOf(reviews, threads[w].arg.movie_id)])
    /\ UNCHANGED <<backend, json_vars, db_vars, now, returned_ids>>

\* ... and the global reviews is rebound to the new list
delete_movie_assign_reviews(w) ==
    /\ At(w, "delete_movie", "assign_reviews")
    /\ reviews' = threads[w].local.kept
    /\ Goto(w, "save_reviews", NoArg)
    /\ UNCHANGED <<backend, movies, movie_id_counter, movies_file, reviews_file,
                   db_vars, now, returned_ids>>

\* delete_movie, lines 118-120: save_json(REVIEWS_FILE, reviews) and the return
delete_movie_save_reviews(w) ==
    /\ At(w, "delete_movie", "save_reviews")
    /\ reviews_file' = save_json(reviews)
    /\ Return(w, Response("delete_movie", threads[w].arg, 200,
                          [message |-> "deleted"], 0))
    /\ UNCHANGED <<backend, movies, reviews, movie_id_counter, movies_file,
                   db_vars, now, returned_ids, taken>>

\* create_review, lines 127-129: the movie is looked up; 404 when it is not there
create_review_lookup(w, review) ==
    /\ Take(w, "create_review")
    /\ CountOf("create_review") < MaxReviews
    /\ \/ /\ FindMovie(movies, review.movie_id) = <<>>
          /\ threads' = threads
          /\ last' = MovieNotFound(review)
       \/ /\ FindMovie(movies, review.movie_id) # <<>>
          /\ threads' = [threads EXCEPT ![w] =
                            Running("create_review", review, "classify",
                                    [movie |-> FindMovie(movies, review.movie_id)[1]])]
          /\ last' = last
    /\ UNCHANGED <<backend, json_vars, db_vars, now, returned_ids>>

\* create_review, lines 132-144: the classifier is called; it raises, or it
\* answers and new_review is built from the movie found at line 127
create_review_classify(w) ==
    /\ At(w, "create_review", "classify")
    /\ \/ /\ Return(w, ClassifierError(threads[w].arg))
          /\ UNCHANGED <<now, taken>>
       \/ \E prediction \in ClassifierOutputs, t \in now..MaxClock :
             /\ Goto(w, "append",
                     [new_review |-> NewReview(threads[w].arg, threads[w].local.movie,
                                               prediction, t)])
             /\ now' = t
    /\ UNCHANGED <<backend, json_vars, db_vars, returned_ids>>

\* create_review, line 147: reviews.append(new_review)
create_review_append(w) ==
    /\ At(w, "create_review", "append")
    /\ reviews' = Append(reviews, threads[w].local.new_review)
    /\ Goto(w, "save", threads[w].local)
    /\ UNCHANGED <<backend, movies, movie_id_counter, movies_file, reviews_file,
                   db_vars, now, returned_ids>>

\* create_review, lines 148-150: save_json(REVIEWS_FILE, reviews) and the return
create_review_save(w) ==
    /\ At(w, "create_review", "save")
    /\ reviews_file' = save_json(reviews)
    /\ Return(w, Response("create_review", threads[w].arg, 200,
                          threads[w].local.new_review, 1))
    /\ UNCHANGED <<backend, movies, reviews, movie_id_counter, movies_file,
                   db_vars, now, returned_ids, taken>>

\* delete_all_reviews, line 178: reviews = []
delete_all_reviews_assign(w) ==
    /\ Take(w, "delete_all_reviews")
    /\ reviews' = <<>>
    /\ threads' = [threads EXCEPT ![w] =
                      Running("delete_all_reviews", NoArg, "save", NoArg)]
    /\ UNCHANGED <<backend, movies, movie_id_counter, movies_file, reviews_file,
                   db_vars, now, returned_ids, last>>

\* delete_all_reviews, lines 179-180: save_json(REVIEWS_FILE, reviews) and the return
delete_all_reviews_save(w) ==
    /\ At(w, "delete_all_reviews", "save")
    /\ reviews_file' = save_json(reviews)
    /\ Return(w, Response("delete_all_reviews", NoArg, 200, [message |-> "deleted"], 0))
    /\ UNCHANGED <<backend, movies, reviews, movie_id_counter, movies_file,
                   db_vars, now, returned_ids, taken>>

\* delete_specific_review, line 190: reviews.pop(index), or its IndexError and
\* the 404 of line 194
delete_specific_review_pop(w, index) ==
    /\ Take(w, "delete_specific_review")
    /\ \/ /\ PyPopInRange(reviews, index)
          /\ reviews' = PyPop(reviews, index)
          /\ threads' = [threads EXCEPT ![w] =
                            Running("delete_specific_review", [index |-> index],
                                    "save", NoArg)]
          /\ last' = last
       \/ /\ ~PyPopInRange(reviews, index)
          /\ reviews' = reviews
          /\ threads' = threads
          /\ last' = Response("delete_specific_review", [index |-> index], 404,
                              [detail |-> "Review index out of range"], 0)
    /\ UNCHANGED <<backend, movies, movie_id_counter, movies_file, reviews_file,
                   db_vars, now, returned_ids>>

\* delete_specific_review, lines 191-192: save_json(REVIEWS_FILE, reviews) and
\* the return
delete_specific_review_save(w) ==
    /\ At(w, "delete_specific_review", "save")
    /\ reviews_file' = save_json(reviews)
    /\ Return(w, Response("delete_specific_review", threads[w].arg, 200,
                          [message |-> "Review deleted"], 0))
    /\ UNCHANGED <<backend, movies, reviews, movie_id_counter, movies_file,
                   db_vars, now, returned_ids, taken>>

\* one step of a worker thread that serves delete_movie
DeleteMovieStep(w) ==
    \/ \E movie_id \in MovieIdArgs : delete_movie_check(w, movie_id)
    \/ delete_movie_filter_movies(w)
    \/ delete_movie_assign_movies(w)
    \/ delete_movie_save_movies(w)
    \/ delete_movie_filter_reviews(w)
    \/ delete_movie_assign_reviews(w)
    \/ delete_movie_save_reviews(w)

\* one step of one worker thread
ThreadStep(w) ==
    \/ \E movie \in MovieCreate : create_movie_new(w, movie)
    \/ create_movie_append(w)
    \/ create_movie_save(w)
    \/ create_movie_load_counter(w)
    \/ create_movie_store_counter(w)
    \/ DeleteMovieStep(w)
    \/ \E review \in ReviewCreate : create_review_lookup(w, review)
    \/ create_review_classify(w)
    \/ create_review_append(w)
    \/ create_review_save(w)
    \/ delete_all_reviews_assign(w)
    \/ delete_all_reviews_save(w)
    \/ \E index \in IndexArgs : delete_specific_review_pop(w, index)
    \/ delete_specific_review_save(w)

ThreadNext == \E w \in Workers : ThreadStep(w)

---------------------------------------------------------------------------
(* Both backends side by side: each request of a client is sent to a       *)
(* main.py process and to a main_sqlite.py process, both started on empty  *)
(* stores.  The classifier is the same model in both, so it answers the    *)
(* same for the same content, and both read the same clock.                *)

\* the two responses to one request
Responses(json, sqlite) == [json |-> json, sqlite |-> sqlite]

\* POST /movies/ to both
both_create_movie(movie) ==
    /\ backend = "both"
    /\ Len(returned_ids) < MaxMovies
    /\ LET new_movie == NewMovie(movie, NextMovieId)
           new_id == Autoincrement(db_movies, db_seq.movies)
       IN  /\ movies' = Append(movies, new_movie)
           /\ movies_file' = save_json(movies')
           /\ movie_id_counter' = NextCounter(movie_id_counter)
           /\ db_movies' = Append(db_movies, NewMovie(movie, new_id))
           /\ db_seq' = [db_seq EXCEPT !.movies = new_id]
           /\ returned_ids' = Append(returned_ids, new_movie.id)
           /\ last' = Responses(Response("create_movie", movie, 200, new_movie, 0),
                                Response("create_movie", movie, 200,
                                         NewMovie(movie, new_id), 0))
    /\ UNCHANGED <<backend, thread_vars, reviews, reviews_file, db_reviews, now>>

\* DELETE /movies/{movie_id} to both
both_delete_movie(movie_id) ==
    /\ backend = "both"
    /\ IF movie_exists(movies, movie_id)
       THEN /\ movies' = WithoutMovie(movies, movie_id)
            /\ movies_file' = save_json(movies')
            /\ reviews' = WithoutReviewsOf(reviews, movie_id)
            /\ reviews_file' = save_json(reviews')
       ELSE UNCHANGED <<movies, movies_file, reviews, reviews_file>>
    /\ db_movies' = db_delete_movie(db_movies, movie_id)
    /\ db_reviews' = db_delete_reviews_of(db_reviews, movie_id)
    /\ last' = Responses(
                 IF movie_exists(movies, movie_id)
                 THEN Response("delete_movie", [movie_id |-> movie_id], 200,
                               [message |-> "deleted"], 0)
                 ELSE Response("delete_movie", [movie_id |-> movie_id], 404,
                               [detail |-> "Movie not found"], 0),
                 Response("delete_movie", [movie_id |-> movie_id], 200,
                          [message |-> "deleted"], 0))
    /\ UNCHANGED <<backend, thread_vars, movie_id_counter, db_seq, now, returned_ids>>

\* what the call classifier(review.content) does: it raises, or it answers
ClassifierOutcomes ==
    {[raises |-> TRUE]} \cup { [raises |-> FALSE, prediction |-> p] : p \in ClassifierOutputs }

\* POST /reviews/ to both; the classifier's outcome and the clock reading t
\* are the same for both
both_create_review(review) ==
    /\ backend = "both"
    /\ Len(reviews) < MaxReviews
    /\ db_seq.reviews < MaxReviews
    /\ \E outcome \in ClassifierOutcomes, t \in now..MaxClock :
          LET movie == FindMovie(movies, review.movie_id)
              row == db_find_movie(db_movies, review.movie_id)
              new_id == Autoincrement(db_reviews, db_seq.reviews)
          IN  /\ now' = IF movie = <<>> /\ row = <<>> THEN now
                        ELSE IF outcome.raises THEN now ELSE t
              /\ IF movie # <<>> /\ ~outcome.raises
                 THEN /\ reviews' = Append(reviews, NewReview(review, movie[1],
                                                              outcome.prediction, t))
                      /\ reviews_file' = save_json(reviews')
                 ELSE UNCHANGED <<reviews, reviews_file>>
              /\ IF row # <<>> /\ ~outcome.raises
                 THEN /\ db_reviews' = Append(db_reviews,
                                              NewReviewRow(new_id, review, row[1],
                                                           outcome.prediction, t))
                      /\ db_seq' = [db_seq EXCEPT !.reviews = new_id]
                 ELSE UNCHANGED <<db_reviews, db_seq>>
              /\ last' = Responses(
                           IF movie = <<>> THEN MovieNotFound(review)
                           ELSE IF outcome.raises THEN ClassifierError(review)
                           ELSE Response("create_review", review, 200,
                                         NewReview(review, movie[1],
                                                   outcome.prediction, t), 1),
                           IF row = <<>> THEN MovieNotFound(review)
                           ELSE IF outcome.raises THEN ClassifierError(review)
                           ELSE Response("create_review", review, 200,
                                         [status |-> "success"], 1))
    /\ UNCHANGED <<backend, thread_vars, movies, movies_file, movie_id_counter,
                   db_movies, returned_ids>>

BothNext ==
    \/ \E movie \in MovieCreate : both_create_movie(movie)
    \/ \E movie_id \in MovieIdArgs : both_delete_movie(movie_id)
    \/ \E review \in ReviewCreate : both_create_review(review)

---------------------------------------------------------------------------
(* Specifications.                                                         *)

Next == JsonWrites \/ SqliteWrites

Reads == JsonReads \/ SqliteReads

\* One process of either backend, requests served one at a time.
Spec == Init /\ [][Next]_vars

\* The same, where the flat-file process may also stop and be started again.
SpecRestart == Init /\ [][Next \/ Startup]_vars

\* The same as Spec, with the read-only requests.
SpecReads == Init /\ [][Next \/ Reads]_vars

\* The flat-file process serving its mutating requests on MaxWorkers threads.
SpecThreads == Init /\ [][ThreadNext]_vars

\* One process of either backend, served one at a time, where the process may
\* stop and main_sqlite.py be started on the same data directory.
SpecMigrate == Init /\ [][Next \/ init_db]_vars

\* A process of each backend, sent the same create_movie, delete_movie and
\* create_review requests, one at a time.
SpecBoth == Init /\ [][BothNext]_vars

\* The flat-file process with one thread inside delete_movie, step by step,
\* while create_movie, create_review and the read-only requests are served
\* whole between its steps.
SpecDeleteReaders ==
    Init /\ [][ \/ \E movie \in MovieCreate : create_movie(movie)
                \/ \E review \in ReviewCreate : create_review(review)
                \/ JsonReads
                \/ \E w \in {1} : DeleteMovieStep(w) ]_vars

---------------------------------------------------------------------------
(* Properties.                                                             *)

\* the response of the step is that of request `op`
Served(op) == last'.op = op

\* the movie store the running backend reads
StoredMovies == IF backend = "json" THEN movies ELSE db_movies

\* the review store the running backend reads, in insertion order
StoredReviews == IF backend = "json" THEN reviews ELSE db_reviews

\* C1: in the flat-file backend a successful delete_movie(id) leaves no movie
\* with that id and no review with that movie_id, and keeps every other movie
\* and every review of another movie, in their previous relative order.
C1_DeleteMovieCascades ==
    [][ (backend = "json" /\ Served("delete_movie") /\ last'.status = 200)
        => LET id == last'.arg.movie_id
           IN  /\ id \in IdsOf(movies)
               /\ id \notin IdsOf(movies')
               /\ \A i \in 1..Len(reviews') : reviews'[i].movie_id # id
               /\ movies' = SelectSeq(movies, LAMBDA m : m.id # id)
               /\ reviews' = SelectSeq(reviews, LAMBDA r : r.movie_id # id) ]_vars

\* C1 witness: a movie was deleted while another movie and a review of another
\* movie stay.
C1_Witness ==
    /\ backend = "json"
    /\ last.op = "delete_movie" /\ last.status = 200
    /\ Len(movies) > 0
    /\ Len(reviews) > 0

\* C2: in the flat-file backend, requests served one at a time from empty
\* stores, every review names a movie that is in the movie store.
C2_ReferentialIntegrity ==
    backend = "json" => \A i \in 1..Len(reviews) : reviews[i].movie_id \in IdsOf(movies)

\* C2 witness: one of two movies was deleted and a review is still stored.
C2_Witness ==
    /\ backend = "json"
    /\ last.op = "delete_movie" /\ last.status = 200
    /\ Len(reviews) = MaxReviews - 1
    /\ Len(returned_ids) = 2

\* C3: create_review for a movie_id that is in no movie of the store answers
\* 404 "Movie not found", calls the classifier not once, and leaves the review
\* store, the movie store and the id counter as they were (both backends).
C3_CreateReviewNotFound ==
    [][ (Served("create_review") /\ last'.arg.movie_id \notin IdsOf(StoredMovies))
        => /\ last'.status = 404
           /\ last'.body = [detail |-> "Movie not found"]
           /\ last'.calls = 0
           /\ UNCHANGED <<json_vars, db_vars>> ]_vars

\* C3 witness: a 404 of create_review while movies and reviews are stored.
C3_Witness ==
    /\ last.op = "create_review" /\ last.status = 404
    /\ Len(StoredMovies) > 0
    /\ Len(StoredReviews) > 0

\* the fields of a stored review, the row id of the relational backend aside
ReviewFields ==
    {"movie_id", "movie_title", "content", "sentiment", "sentiment_score", "created_at"}

\* r is a complete review of request `review`, made in second t
CompleteReview(r, review, t) ==
    /\ DOMAIN r \ {"id"} = ReviewFields
    /\ r.movie_id = review.movie_id
    /\ r.content = review.content
    /\ \E i \in 1..Len(StoredMovies) :
          StoredMovies[i].id = r.movie_id /\ StoredMovies[i].title = r.movie_title
    /\ r.sentiment \in {"POSITIVE", "NEGATIVE"}
    /\ r.sentiment_score \in 0..10000
    /\ r.created_at = t

\* C4: a create_review that reached the classifier either fails, and then no
\* record of the review list, the file or the table is added or changed, or
\* succeeds, and then exactly one complete record is appended (both backends).
C4_CreateReviewAtomic ==
    [][ (Served("create_review") /\ last'.calls > 0)
        => \/ /\ last'.status >= 400
              /\ UNCHANGED <<json_vars, db_vars>>
           \/ /\ last'.status = 200
              /\ UNCHANGED <<movies, movies_file, movie_id_counter, db_movies>>
              /\ IF backend = "json"
                 THEN /\ Len(reviews') = Len(reviews) + 1
                      /\ SubSeq(reviews', 1, Len(reviews)) = reviews
                      /\ CompleteReview(reviews'[Len(reviews')], last'.arg, now' \div 2)
                      /\ reviews_file' = [exists |-> TRUE, data |-> reviews']
                      /\ UNCHANGED db_reviews
                 ELSE /\ Len(db_reviews') = Len(db_reviews) + 1
                      /\ SubSeq(db_reviews', 1, Len(db_reviews)) = db_reviews
                      /\ CompleteReview(db_reviews'[Len(db_reviews')], last'.arg, now' \div 2)
                      /\ UNCHANGED <<reviews, reviews_file>> ]_vars

\* C4 witness: the classifier failed while reviews are stored.
C4_Witness ==
    /\ last.op = "create_review" /\ last.status = 500 /\ last.calls = 1
    /\ Len(StoredReviews) > 0

\* s[i] < s[j] whenever i < j
StrictlyIncreasing(s) == \A i, j \in 1..Len(s) : i < j => s[i] < s[j]

\* C5: in one process of the flat-file backend, create_movie and delete_movie
\* interleaved in any way, the ids create_movie returns are strictly
\* increasing (so pairwise distinct) and the next-id counter never decreases.
C5_IdsIncrease ==
    [][ backend = "json"
        => /\ movie_id_counter' >= movie_id_counter
           /\ StrictlyIncreasing(returned_ids') ]_vars

\* C5 witness: a movie was created after another one had been deleted.
C5_Witness ==
    /\ backend = "json"
    /\ last.op = "create_movie"
    /\ Len(returned_ids) >= 2
    /\ Len(movies) < Len(returned_ids)

\* C6 (as claimed): no id returned by create_movie equals an id returned by
\* an earlier create_movie, restarts of the flat-file process included.
C6_IdsNeverReused ==
    backend = "json"
    => \A i, j \in 1..Len(returned_ids) : i # j => returned_ids[i] # returned_ids[j]

\* C7 (as claimed): create_movie gives the new movie the id (maximum id in the
\* store) + 1, or 1 for an empty store, in every reachable state.
C7_IdIsMaxPlusOne ==
    [][ (backend = "json" /\ Served("create_movie"))
        => last'.body.id = MaxOf(IdsOf(movies)) + 1 ]_vars

\* C7 (amended): create_movie gives the new movie the value of the next-id
\* counter, which is greater than every id in the store; it is (maximum id in
\* the store) + 1, or 1 for an empty store, exactly when the movie with the id
\* counter - 1 is still in the store or the counter is still 1.
C7_IdIsCounter ==
    [][ (backend = "json" /\ Served("create_movie"))
        => /\ last'.body.id = movie_id_counter
           /\ last'.body.id > MaxOf(IdsOf(movies))
           /\ (last'.body.id = MaxOf(IdsOf(movies)) + 1)
                <=> (movie_id_counter = 1 \/ (movie_id_counter - 1) \in IdsOf(movies))
           /\ movies' = Append(movies, last'.body)
           /\ movie_id_counter' = movie_id_counter + 1 ]_vars

\* C7 witness: the movie with the highest id was deleted and the next
\* create_movie skipped its id.
C7_Witness ==
    /\ backend = "json"
    /\ last.op = "create_movie"
    /\ Len(movies) = 1
    /\ last.body.id = 2
    /\ movies[1].id = 2

\* C8: in the flat-file backend delete_movie(id) for an id that is in no movie
\* of the store answers 404 and leaves the movie list, the review list, the
\* counter and both files as they were.
C8_DeleteMovieNotFound ==
    [][ (backend = "json" /\ Served("delete_movie")
            /\ last'.arg.movie_id \notin IdsOf(movies))
        => /\ last'.status = 404
           /\ UNCHANGED json_vars ]_vars

\* C8 witness: a 404 of delete_movie while movies and reviews are stored.
C8_Witness ==
    /\ backend = "json"
    /\ last.op = "delete_movie" /\ last.status = 404
    /\ Len(movies) > 0
    /\ Len(reviews) > 0

\* C9 (as claimed): delete_specific_review(index) answers 404 and leaves the
\* review list as it was for every index outside 0..len(reviews)-1, the
\* negative ones included.
C9_OutOfRangeIsNotFound ==
    [][ (backend = "json" /\ Served("delete_specific_review")
            /\ last'.arg.index \notin 0..(Len(reviews) - 1))
        => /\ last'.status = 404
           /\ UNCHANGED <<reviews, reviews_file>> ]_vars

\* the reviews last-inserted-first
NewestFirst == PyReverse(StoredReviews)

\* C10 (as claimed): get_recent_reviews(limit = n) returns, for every integer
\* n, at most n reviews, namely the most recently inserted ones, newest first:
\* none for n <= 0, all of them for n >= the size of the store.
C10_RecentAtMostN ==
    last.op = "get_recent_reviews"
    => LET n == last.arg.limit
           k == IF n <= 0 THEN 0 ELSE IF n >= Len(NewestFirst) THEN Len(NewestFirst) ELSE n
       IN  /\ Len(last.body.items) <= k
           /\ last.body.items = SubSeq(NewestFirst, 1, k)

\* C11 (as claimed): get_all_reviews returns the reviews in exactly the
\* reverse of insertion order, and with a movie_id filter exactly the reviews
\* of that movie_id in the same relative order (both backends).
C11_AllReviewsReverseInsertion ==
    last.op = "get_all_reviews"
    => LET filter == last.arg
       IN  last.body.items =
               IF filter.given
               THEN SelectSeq(NewestFirst, LAMBDA r : r.movie_id = filter.value)
               ELSE NewestFirst

\* no worker thread is inside a handler
AllIdle == \A w \in Workers : threads[w] = Idle

\* C12 (as claimed): while a thread is inside delete_movie, a get_all_reviews
\* or get_recent_reviews served between its steps never returns a review whose
\* movie_id is absent from the movie list at the moment of the read.
C12_DeleteAtomicToReaders ==
    [][ ( \/ \E filter \in FilterArgs : get_all_reviews(filter)
          \/ \E limit \in LimitArgs : get_recent_reviews(limit) )
        => \A i \in 1..Len(last'.body.items) :
              last'.body.items[i].movie_id \in IdsOf(movies) ]_vars

\* C13 (as claimed): once create_review(movie_id = m) and delete_movie(m) have
\* both completed, in whatever interleaving, and movie m is gone, the review
\* list holds no review with movie_id = m.
C13_NoReviewAfterDelete ==
    ( /\ AllIdle
      /\ last.op \in {"create_review", "delete_movie"}
      /\ taken.create_review > 0 /\ taken.delete_movie > 0
      /\ last.arg.movie_id \notin IdsOf(movies) )
    => \A i \in 1..Len(reviews) : reviews[i].movie_id # last.arg.movie_id

\* C14 (as claimed): when only create_movie requests were served, in whatever
\* interleaving, and all have completed, the returned ids are pairwise
\* distinct, every created movie is in the movie list, and the counter is its
\* initial value plus the number of creations.
C14_NoLostCounterUpdate ==
    (AllIdle /\ SumOver(taken, Handlers) = taken.create_movie)
    => /\ \A i, j \in 1..Len(returned_ids) : i # j => returned_ids[i] # returned_ids[j]
       /\ Len(movies) = taken.create_movie
       /\ \A i \in 1..Len(returned_ids) : returned_ids[i] \in IdsOf(movies)
       /\ movie_id_counter = 1 + taken.create_movie

\* the fields of the stored reviews the two backends share (the row id aside)
WithoutRowId(rows) ==
    [i \in 1..Len(rows) |-> [f \in ReviewFields |-> rows[i][f]]]

\* C15 (as claimed): for every sequence of create_movie, delete_movie and
\* create_review requests sent to both backends from empty stores, each
\* request succeeds in one if and only if it succeeds in the other, failing
\* with 404 in the same cases, and afterwards both hold the same movies and
\* the same reviews (the row ids aside).
C15_BackendsInterchangeable ==
    (backend = "both" /\ DOMAIN last = {"json", "sqlite"})
    => /\ last.json.status = last.sqlite.status
       /\ movies = db_movies
       /\ WithoutRowId(reviews) = WithoutRowId(db_reviews)

\* C16 (as claimed): the migration is one-time: a start of main_sqlite.py
\* after its first one copies nothing from movies.json and reviews.json into
\* the tables, so a record deleted through the API does not reappear and no
\* review is inserted twice.
C16_MigrationOneTime ==
    [][ (init_db /\ backend = "sqlite")
        => (db_movies' = db_movies /\ db_reviews' = db_reviews) ]_vars

\* s is t with some of its elements removed, the others in their order
RECURSIVE IsSubSeq(_, _)
IsSubSeq(s, t) ==
    IF s = <<>> THEN TRUE
    ELSE IF t = <<>> THEN FALSE
    ELSE IF Head(s) = Head(t) THEN IsSubSeq(Tail(s), Tail(t))
    ELSE IsSubSeq(s, Tail(t))

\* the titles of the stored movies with the id
TitlesOf(movie_id) ==
    { StoredMovies[i].title : i \in { j \in 1..Len(StoredMovies) : StoredMovies[j].id = movie_id } }

\* C17: a stored review is immutable (both backends): every request leaves
\* the stored reviews as they were, some of them removed; or it is a successful
\* create_review, which leaves them all as they were and appends one review
\* whose movie_title is the title its movie has at that moment.
C17_ReviewsImmutable ==
    [][ \/ IsSubSeq(StoredReviews', StoredReviews)
        \/ /\ Served("create_review") /\ last'.status = 200
           /\ Len(StoredReviews') = Len(StoredReviews) + 1
           /\ SubSeq(StoredReviews', 1, Len(StoredReviews)) = StoredReviews
           /\ LET r == StoredReviews'[Len(StoredReviews')]
              IN  /\ r.movie_id = last'.arg.movie_id
                  /\ r.content = last'.arg.content
                  /\ TitlesOf(r.movie_id) = {r.movie_title} ]_vars

\* C17 witness: a review of one movie is stored unchanged while a review of a
\* movie with another title was created after it.
C17_Witness ==
    /\ last.op = "create_review" /\ last.status = 200
    /\ Len(StoredReviews) = 2
    /\ StoredReviews[1].movie_title # StoredReviews[2].movie_title

\* C18: in the flat-file backend delete_specific_review(i) with
\* 0 <= i < len(reviews) answers 200, removes exactly the review at position i
\* of the insertion-ordered list (counted from 0), keeps the other reviews in
\* their order, saves the list, and leaves the movies and the id counter as
\* they were.
C18_DeleteByInsertionIndex ==
    [][ (backend = "json" /\ Served("delete_specific_review")
            /\ last'.arg.index \in 0..(Len(reviews) - 1))
        => LET i == last'.arg.index
           IN  /\ last'.status = 200
               /\ Len(reviews') = Len(reviews) - 1
               /\ \A j \in 1..Len(reviews') :
                     reviews'[j] = IF j <= i THEN reviews[j] ELSE reviews[j + 1]
               /\ reviews_file' = [exists |-> TRUE, data |-> reviews']
               /\ UNCHANGED <<movies, movies_file, movie_id_counter>> ]_vars

\* C18 witness: position 0, the oldest review, was deleted and the review of
\* the second movie, inserted after it, stays.
C18_Witness ==
    /\ backend = "json"
    /\ last.op = "delete_specific_review" /\ last.status = 200
    /\ last.arg.index = 0
    /\ Len(reviews) = 1
    /\ reviews[1].movie_id = 2
    /\ Len(movies) = 2

\* C19 (as claimed): a review whose create_review answered 200 is in the review
\* list once all requests have completed, when its movie was not deleted and
\* no delete_all_reviews or delete_specific_review request was served: the
\* other requests were create_movie, create_review and delete_movie of other
\* movies, in whatever interleaving.
C19_NoSubmittedReviewLost ==
    ( /\ AllIdle
      /\ last.op = "create_review" /\ last.status = 200
      /\ last.arg.movie_id \in IdsOf(movies)
      /\ taken.delete_all_reviews = 0
      /\ taken.delete_specific_review = 0 )
    => \E i \in 1..Len(reviews) : reviews[i] = last.body

\* C20: in the flat-file backend, requests served one at a time and restarts
\* included, movies.json read back gives the movie list and reviews.json read
\* back gives the review list, in the same order, after every request.
C20_FilesTrackMemory ==
    backend = "json"
    => /\ load_json(movies_file) = movies
       /\ load_json(reviews_file) = reviews

\* C20 witness: the process was started again and loaded movies and reviews.
C20_Witness ==
    /\ backend = "json"
    /\ last.op = "startup"
    /\ Len(movies) > 0
    /\ Len(reviews) > 0

\* the classifier answers a stored review can come from: those whose score,
\* rounded as create_review rounds it, is the stored sentiment_score
AnswersBehind(r) ==
    { p \in ClassifierOutputs : Round4(p.score) = r.sentiment_score }

\* C21: in both backends every stored review has the sentiment POSITIVE or
\* NEGATIVE, and it is POSITIVE exactly when the raw label the classifier
\* answered is 'LABEL_1': every other raw label, one that reads POSITIVE
\* included, is stored as NEGATIVE.
C21_PositiveIffLabel1 ==
    \A i \in 1..Len(StoredReviews) :
        LET r == StoredReviews[i]
        IN  /\ r.sentiment \in {"POSITIVE", "NEGATIVE"}
            /\ AnswersBehind(r) # {}
            /\ \A p \in AnswersBehind(r) :
                  (r.sentiment = "POSITIVE") <=> (p.label = "LABEL_1")

\* C21 witness: a review that came from the answer LABEL_1 and a review that
\* came from another raw label are both stored.
C21_Witness ==
    /\ \E i \in 1..Len(StoredReviews) :
          /\ StoredReviews[i].sentiment = "POSITIVE"
          /\ \A p \in AnswersBehind(StoredReviews[i]) : p.label = "LABEL_1"
    /\ \E i \in 1..Len(StoredReviews) :
          /\ StoredReviews[i].sentiment = "NEGATIVE"
          /\ \E p \in AnswersBehind(StoredReviews[i]) : p.label = "POSITIVE"

===========================================================================
